---- MODULE Spec2Model ----
(***************************************************************************)
(* MultiMarkovModel of poke_markov.py: per-corpus order-k Markov tables,   *)
(* the fusion of their transition probabilities, string generation and the *)
(* JSON export / load of a model.                                          *)
(*                                                                         *)
(* Python floats are modelled as exact rationals <<numerator, denominator>>*)
(* in lowest terms, so IEEE rounding and overflow are abstracted; weights  *)
(* are integers (multiples of 1.0).                                        *)
(***************************************************************************)
EXTENDS Integers, Sequences, FiniteSets, TLC

\* ---------------------------------------------------------------- bounds
\* items trained in total, over all train calls
MaxItems == 2
\* the largest max_length handed to generate
MaxLength == 3
\* the history counter of restarts stops counting here
MaxRestarts == 2
\* MAX_LEN of the decoder (40 in the source) and the largest beam_width tried
MAX_LEN == 4
MaxBeamWidth == 6

\* ------------------------------------------------------------- constants
\* def __init__(self, order=2, ...)
DefaultOrder == 2
Orders == 1..DefaultOrder

START_TOKEN == "<START>"
END_TOKEN == "<END>"

Names == {"a", "b"}

\* items are strings; list(item) is the sequence of their characters
Pika == <<"p", "i", "k", "a">>
PQuote == <<"p", "\"">>
Items == {<<>>, Pika, PQuote}

Chars == {"p", "i", "k", "a", "\""}
Symbols == Chars \cup {START_TOKEN, END_TOKEN}

RECURSIVE SeqsUpTo(_, _)
SeqsUpTo(S, n) ==
    IF n = 0 THEN {<<>>}
    ELSE LET shorter == SeqsUpTo(S, n - 1)
         IN shorter \cup {Append(s, x) : s \in {t \in shorter : Len(t) = n - 1}, x \in S}

DataLists == SeqsUpTo(Items, MaxItems)

WeightVals == {-1, 0, 1, 2}
WeightMaps == UNION {[D -> WeightVals] : D \in SUBSET Names}

EmptyCounter == <<>>
EmptyTable == <<>>
EmptyModels == <<>>
EmptyWeights == <<>>

\* ------------------------------------------------------------- rationals
RECURSIVE GCD(_, _)
GCD(a, b) == IF b = 0 THEN a ELSE GCD(b, a % b)

Abs(n) == IF n < 0 THEN 0 - n ELSE n

\* n / d for d > 0, in lowest terms
Rat(n, d) == LET g == GCD(Abs(n), d) IN <<n \div g, d \div g>>
RatZero == <<0, 1>>
RatOne == <<1, 1>>
RatAdd(x, y) == Rat(x[1] * y[2] + y[1] * x[2], x[2] * y[2])
RatMul(x, y) == Rat(x[1] * y[1], x[2] * y[2])

RECURSIVE RatSumSeq(_)
RatSumSeq(s) == IF s = <<>> THEN RatZero ELSE RatAdd(Head(s), RatSumSeq(Tail(s)))

\* --------------------------------------------------------------- helpers
RECURSIVE SetToSeq(_)
SetToSeq(S) ==
    IF S = {} THEN <<>>
    ELSE LET x == CHOOSE y \in S : TRUE IN <<x>> \o SetToSeq(S \ {x})

RECURSIVE SumCounts(_, _)
SumCounts(f, S) ==
    IF S = {} THEN 0
    ELSE LET x == CHOOSE y \in S : TRUE IN f[x] + SumCounts(f, S \ {x})

RECURSIVE Concat(_)
Concat(ss) == IF ss = <<>> THEN <<>> ELSE Head(ss) \o Concat(Tail(ss))

\* Counter.__getitem__: a missing key counts 0 and is not inserted
CounterGet(counter, char) == IF char \in DOMAIN counter THEN counter[char] ELSE 0

\* sum(counter.values())
CounterTotal(counter) == SumCounts(counter, DOMAIN counter)

\* self.models[name].get(state, Counter())
TableGet(table, state) == IF state \in DOMAIN table THEN table[state] ELSE EmptyCounter

\* ------------------------------------------------------------------ train
AllStart(ord) == [i \in 1..ord |-> START_TOKEN]

\* the END marker is not appended
PaddedNoEnd(item, ord) == AllStart(ord) \o item

\* lines 24-25: order START markers, the item's symbols, one END marker
Padded(item, ord) == AllStart(ord) \o item \o <<END_TOKEN>>

\* self.models[model_name][state][next_char] += 1
Incr(table, state, next_char) ==
    LET counter == TableGet(table, state)
        newCounter == [s \in DOMAIN counter \cup {next_char} |->
                         IF s = next_char THEN CounterGet(counter, s) + 1 ELSE counter[s]]
    IN [st \in DOMAIN table \cup {state} |-> IF st = state THEN newCounter ELSE table[st]]

\* for i in range(len(padded) - order), i counted from 0 as in the code
RECURSIVE TrainWindows(_, _, _, _)
TrainWindows(table, padded, ord, i) ==
    IF i >= Len(padded) - ord THEN table
    ELSE TrainWindows(Incr(table, SubSeq(padded, i + 1, i + ord), padded[i + ord + 1]),
                      padded, ord, i + 1)

\* for item in data_list
RECURSIVE TrainItems(_, _, _)
TrainItems(table, data_list, ord) ==
    IF data_list = <<>> THEN table
    ELSE TrainItems(TrainWindows(table, Padded(Head(data_list), ord), ord, 0),
                    Tail(data_list), ord)

\* the table train starts from: created empty only for a new name
TrainBaseResets(ms, model_name) == EmptyTable

TrainBase(ms, model_name) ==
    IF model_name \in DOMAIN ms THEN ms[model_name] ELSE EmptyTable

TrainOp(ms, ord, model_name, data_list) ==
    [n \in DOMAIN ms \cup {model_name} |->
        IF n = model_name THEN TrainItems(TrainBase(ms, model_name), data_list, ord)
        ELSE ms[n]]

\* ------------------------------------------------ _get_fused_probabilities
\* membership test of the first loop
IsActiveNoTotalCheck(ms, state, weights, name) ==
    /\ name \in DOMAIN ms
    /\ weights[name] > 0

IsActiveZeroWeight(ms, state, weights, name) ==
    /\ name \in DOMAIN ms
    /\ weights[name] >= 0
    /\ CounterTotal(TableGet(ms[name], state)) > 0

IsActive(ms, state, weights, name) ==
    /\ name \in DOMAIN ms
    /\ weights[name] > 0
    /\ CounterTotal(TableGet(ms[name], state)) > 0

ActiveModels(ms, state, weights) ==
    [name \in {n \in DOMAIN weights : IsActive(ms, state, weights, n)} |->
        [counter |-> TableGet(ms[name], state),
         total |-> CounterTotal(TableGet(ms[name], state)),
         weight |-> weights[name]]]

TotalActiveWeightAllNamed(am, weights) ==
    SumCounts(weights, {n \in DOMAIN weights : weights[n] > 0})

TotalActiveWeight(am, weights) ==
    SumCounts([n \in DOMAIN am |-> am[n].weight], DOMAIN am)

AllChars(am) == UNION {DOMAIN am[n].counter : n \in DOMAIN am}

\* the weights are used as given, not renormalized
RECURSIVE FusedPNotNormalized(_, _, _, _)
FusedPNotNormalized(am, taw, char, todo) ==
    IF todo = {} THEN RatZero
    ELSE LET name == CHOOSE n \in todo : TRUE
             p_char == Rat(CounterGet(am[name].counter, char), am[name].total)
         IN RatAdd(RatMul(Rat(am[name].weight, 1), p_char),
                   FusedPNotNormalized(am, taw, char, todo \ {name}))

\* the inner loop: fused_p += normalized_w * p_char over the active models
RECURSIVE FusedP(_, _, _, _)
FusedP(am, taw, char, todo) ==
    IF todo = {} THEN RatZero
    ELSE LET name == CHOOSE n \in todo : TRUE
             normalized_w == Rat(am[name].weight, taw)
             p_char == Rat(CounterGet(am[name].counter, char), am[name].total)
         IN RatAdd(RatMul(normalized_w, p_char), FusedP(am, taw, char, todo \ {name}))

\* indexing the defaultdict instead: a missing context gets an empty Counter
TableAfterIndex(table, state) ==
    [st \in DOMAIN table \cup {state} |->
        IF st \in DOMAIN table THEN table[st] ELSE EmptyCounter]

\* line 36: .get(state, Counter()) leaves the corpus's table as it is
TableAfterGet(table, state) == table

\* lines 34-36: the tables after the lookups of one call, made only for a
\* name in self.models with weight > 0
ModelsAfterFused(ms, state, weights) ==
    [n \in DOMAIN ms |->
        IF n \in DOMAIN weights /\ weights[n] > 0
        THEN TableAfterGet(ms[n], state) ELSE ms[n]]

\* result: raised is "" or the exception, population and probabilities the
\* two returned lists (population in the iteration order of the set all_chars)
GetFusedProbabilities(ms, state, weights) ==
    LET am == ActiveModels(ms, state, weights)
        taw == TotalActiveWeight(am, weights)
        pop == SetToSeq(AllChars(am))
    IN IF DOMAIN am = {}
       THEN [raised |-> "", population |-> <<>>, probabilities |-> <<>>]
       ELSE IF pop # <<>> /\ (taw = 0 \/ \E n \in DOMAIN am : am[n].total = 0)
       THEN [raised |-> "ZeroDivisionError", population |-> <<>>, probabilities |-> <<>>]
       ELSE [raised |-> "", population |-> pop,
             probabilities |-> [i \in 1..Len(pop) |-> FusedP(am, taw, pop[i], DOMAIN am)]]

\* ------------------------------------------------- export / load as JSON
\* the characters of a symbol (a str), as JSON text is built from characters
StrChars(sym) ==
    IF sym = START_TOKEN THEN <<"<", "S", "T", "A", "R", "T", ">">>
    ELSE IF sym = END_TOKEN THEN <<"<", "E", "N", "D", ">">>
    ELSE <<sym>>

RECURSIVE EscapeChars(_)
EscapeChars(cs) ==
    IF cs = <<>> THEN <<>>
    ELSE (IF Head(cs) \in {"\"", "\\"} THEN <<"\\", Head(cs)>> ELSE <<Head(cs)>>)
           \o EscapeChars(Tail(cs))

\* a str as a JSON string literal
JsonString(sym) == <<"\"">> \o EscapeChars(StrChars(sym)) \o <<"\"">>

RECURSIVE JsonItems(_)
JsonItems(state) ==
    IF state = <<>> THEN <<>>
    ELSE IF Len(state) = 1 THEN JsonString(state[1])
    ELSE JsonString(state[1]) \o <<",", " ">> \o JsonItems(Tail(state))

\* the quote and the backslash of a symbol are written unescaped
JsonDumpsStateNoEscape(state) ==
    LET RECURSIVE Raw(_)
        Raw(st) == IF st = <<>> THEN <<>>
                   ELSE IF Len(st) = 1 THEN <<"\"">> \o StrChars(st[1]) \o <<"\"">>
                   ELSE <<"\"">> \o StrChars(st[1]) \o <<"\"", ",", " ">> \o Raw(Tail(st))
    IN <<"[">> \o Raw(state) \o <<"]">>

\* json.dumps(state): the tuple as the text of a JSON array of strings
JsonDumpsState(state) == <<"[">> \o JsonItems(state) \o <<"]">>

JsonError == [ok |-> FALSE, value |-> <<>>]

\* json.loads(state_str) for an array of strings; mode is the scanner's
\* position: outside a string, inside one, or after a backslash
RECURSIVE JsonLoadsArray(_, _, _, _, _)
JsonLoadsArray(text, i, mode, cur, acc) ==
    IF i > Len(text) THEN JsonError
    ELSE LET c == text[i]
         IN IF mode = "out"
            THEN IF c = "\"" THEN JsonLoadsArray(text, i + 1, "str", "", acc)
                 ELSE IF c = "]" THEN (IF i = Len(text) THEN [ok |-> TRUE, value |-> acc]
                                       ELSE JsonError)
                 ELSE IF c \in {",", " "} \/ (c = "[" /\ i = 1)
                      THEN JsonLoadsArray(text, i + 1, "out", cur, acc)
                 ELSE JsonError
            ELSE IF mode = "str"
            THEN IF c = "\\" THEN JsonLoadsArray(text, i + 1, "esc", cur, acc)
                 ELSE IF c = "\"" THEN JsonLoadsArray(text, i + 1, "out", "", Append(acc, cur))
                 ELSE JsonLoadsArray(text, i + 1, "str", cur \o c, acc)
            ELSE JsonLoadsArray(text, i + 1, "str", cur \o c, acc)

JsonLoadsState(text) == JsonLoadsArray(text, 1, "out", "", <<>>)

\* a dict written as a JSON object: its members <<key, value>> in order
ObjMembers(f) ==
    LET ks == SetToSeq(DOMAIN f) IN [i \in 1..Len(ks) |-> <<ks[i], f[ks[i]]>>]

\* a JSON object read back as a dict: the last member of a key wins
ObjDict(members) ==
    [k \in {members[i][1] : i \in DOMAIN members} |->
        LET last == CHOOSE i \in DOMAIN members :
                        /\ members[i][1] = k
                        /\ \A j \in DOMAIN members : members[j][1] = k => j <= i
        IN members[last][2]]

\* lines 99-103: {json.dumps(state): dict(counts) for state, counts in transitions.items()}
ExportTable(transitions) ==
    [key \in {JsonDumpsState(st) : st \in DOMAIN transitions} |->
        LET st == CHOOSE t \in DOMAIN transitions : JsonDumpsState(t) = key
        IN transitions[st]]

\* lines 94-106: export_data written by json.dump
ExportToJson(ord, dw, ms) ==
    [order |-> ord,
     default_weights |-> ObjMembers(dw),
     models |-> ObjMembers([name \in DOMAIN ms |->
                   ObjMembers([key \in DOMAIN ExportTable(ms[name]) |->
                       ObjMembers(ExportTable(ms[name])[key])])])]

\* lines 116-120 for one corpus: tuple(json.loads(state_str)) -> Counter(counts)
LoadTable(saved) ==
    LET saved_dict == ObjDict(saved)
    IN [state_tuple \in {JsonLoadsState(k).value : k \in DOMAIN saved_dict} |->
           LET state_str == CHOOSE k \in DOMAIN saved_dict :
                                JsonLoadsState(k).value = state_tuple
           IN ObjDict(saved_dict[state_str])]

LoadRaises(data) ==
    \E i \in DOMAIN data.models : \E j \in DOMAIN data.models[i][2] :
        ~JsonLoadsState(data.models[i][2][j][1]).ok

\* lines 111-121: json.load, cls(order, default_weights), one table per name
LoadFromJson(data) ==
    IF LoadRaises(data)
    THEN [raised |-> "JSONDecodeError", order |-> 0,
          default_weights |-> EmptyWeights, models |-> EmptyModels]
    ELSE [raised |-> "", order |-> data.order,
          default_weights |-> ObjDict(data.default_weights),
          models |-> [name \in DOMAIN ObjDict(data.models) |->
                         LoadTable(ObjDict(data.models)[name])]]

\* ===================================================== inference.py
\* decode_sequence_beam_batched: batched beam search over a scoring oracle.
\* Scores are float32 in the source; log-probabilities are modelled as small
\* non-positive integers, the sentinel -1e9 and the threshold -1e8 literally.

\* vocab.json as train.py builds it: [PAD] is 0, the sorted characters follow
PAD_TOKEN == 0
START_ID == 1
STOP_TOKEN == 2
\* vocab_size = log_probs.shape[-1]
VocabSize == 5
Vocab == 0..(VocabSize - 1)

\* inv_vocab.get(idx, "")
InvVocab(idx) ==
    IF idx = PAD_TOKEN THEN "[PAD]"
    ELSE IF idx = START_ID THEN "["
    ELSE IF idx = STOP_TOKEN THEN "]"
    ELSE IF idx = 3 THEN "a"
    ELSE IF idx = 4 THEN "b"
    ELSE ""

KILLED_SCORE == -1000000000
DEAD_THRESHOLD == -100000000

\* float32 -inf, the log of probability 0
NEG_INF == -2000000000

\* one row of log_softmax output, indexed by token id + 1
RowStopAll == <<NEG_INF, NEG_INF, 0, NEG_INF, NEG_INF>>
RowStop == <<-30, -30, 0, -30, -30>>
RowA == <<-9, -9, -3, -1, -2>>
RowTie == <<-5, -5, -1, -1, -1>>
RowB == <<-9, -9, -2, -4, -1>>
LogProbRows == {RowStopAll, RowStop, RowA, RowTie, RowB}

\* a fixed oracle (model and encoder input): the row it gives for a decoder
\* prefix, here a function of the prefix's last token
OracleKeys == Vocab \ {STOP_TOKEN}
Oracles == [OracleKeys -> LogProbRows]

\* lines 80-86: preds[:, curr_len - 1, :] through log_softmax, for one hypothesis
LogProbs(orc, seq) == orc[seq[Len(seq)]]

\* float32 addition: -inf absorbs everything; at -1e9 the spacing of float32 is
\* 64, a finite log-probability added to the sentinel is absorbed
Float32Add(s, lp) ==
    IF s = NEG_INF \/ lp = NEG_INF THEN NEG_INF
    ELSE IF s = KILLED_SCORE THEN s
    ELSE s + lp

\* line 92-96: flat_scores[b * vocab_size + v], b and v counted from 0
FlatScore(orc, seqs, scs, f) ==
    Float32Add(scs[(f \div VocabSize) + 1],
               LogProbs(orc, seqs[(f \div VocabSize) + 1])[(f % VocabSize) + 1])

FlatIndices(bw) == 0..(bw * VocabSize - 1)

\* lines 92-96: flat_scores, as a function of the flattened index
FlatScores(orc, seqs, scs) ==
    [f \in FlatIndices(Len(scs)) |-> FlatScore(orc, seqs, scs, f)]

\* the higher flattened index comes first among equal scores
RankLastWins(fs, f) ==
    Cardinality({g \in DOMAIN fs : fs[g] > fs[f] \/ (fs[g] = fs[f] /\ g > f)})

\* the number of elements that top_k puts before element f: the larger ones,
\* and the equal ones of lower flattened index
Rank(fs, f) ==
    Cardinality({g \in DOMAIN fs : fs[g] > fs[f] \/ (fs[g] = fs[f] /\ g < f)})

\* line 99: tf.math.top_k(flat_scores, k): the k largest in descending order
TopK(fs, k) == [i \in 1..k |-> CHOOSE f \in DOMAIN fs : Rank(fs, f) = i - 1]

\* lines 103-104
BeamIdx(f) == f \div VocabSize
TokenIdx(f) == f % VocabSize

\* STOP is appended to the sequence moved to the finished list
FinishedEntryWithStop(seq) == Append(seq, STOP_TOKEN)

\* line 117: finished_seqs.append(sequences[beam_idx])
FinishedEntry(seq) == seq

\* the hypothesis that chose STOP stays in the beam as it is, without a PAD
NextSequenceNoPad(seqs, f) ==
    IF TokenIdx(f) = STOP_TOKEN THEN seqs[BeamIdx(f) + 1]
    ELSE Append(seqs[BeamIdx(f) + 1], TokenIdx(f))

\* lines 110-125 for the selected pair f: the hypothesis put into the next beam
NextSequence(seqs, f) ==
    IF TokenIdx(f) = STOP_TOKEN THEN Append(seqs[BeamIdx(f) + 1], PAD_TOKEN)
    ELSE Append(seqs[BeamIdx(f) + 1], TokenIdx(f))

NextScore(fs, f) ==
    IF TokenIdx(f) = STOP_TOKEN THEN KILLED_SCORE ELSE fs[f]

\* the selected pairs whose token is STOP, in the order of selection
RECURSIVE StopPicks(_)
StopPicks(top) ==
    IF top = <<>> THEN <<>>
    ELSE (IF TokenIdx(Head(top)) = STOP_TOKEN THEN <<Head(top)>> ELSE <<>>)
           \o StopPicks(Tail(top))

\* tf.reduce_max
MaxOf(scs) == CHOOSE m \in {scs[i] : i \in DOMAIN scs} : \A i \in DOMAIN scs : m >= scs[i]

\* the loop goes on while any score is not below -1e9, the sentinel itself
AllDeadBelowSentinel(scs) == MaxOf(scs) < KILLED_SCORE

\* line 131: tf.reduce_max(scores) < -1e8
AllDead(scs) == MaxOf(scs) < DEAD_THRESHOLD

\* len(seq) ** 0.7, times 10000
Pow07(len) ==
    IF len = 1 THEN 10000 ELSE IF len = 2 THEN 16245 ELSE IF len = 3 THEN 21577
    ELSE IF len = 4 THEN 26390 ELSE IF len = 5 THEN 30852 ELSE IF len = 6 THEN 35051
    ELSE IF len = 7 THEN 39045 ELSE 42871

\* s1 / len1 ** 0.7 > s2 / len2 ** 0.7, by cross-multiplication; scores at the
\* sentinel's magnitude are compared in units of 1e5
NormGreater(s1, len1, s2, len2) ==
    IF s1 = NEG_INF THEN FALSE
    ELSE IF s2 = NEG_INF THEN TRUE
    ELSE IF s1 > -2000 /\ s2 > -2000
    THEN s1 * Pow07(len2) > s2 * Pow07(len1)
    ELSE (s1 \div 100000) * Pow07(len2) > (s2 \div 100000) * Pow07(len1)

\* the raw score decides, without length normalization
BestFinishedRawScore(fseqs, fscores) ==
    CHOOSE i \in DOMAIN fscores :
        \A j \in DOMAIN fscores :
            \/ fscores[i] > fscores[j]
            \/ fscores[i] = fscores[j] /\ i <= j

\* lines 142-145: np.argmax(normalized_scores), the first maximum
BestFinished(fseqs, fscores) ==
    CHOOSE i \in DOMAIN fscores :
        \A j \in DOMAIN fscores :
            \/ j = i
            \/ NormGreater(fscores[i], Len(fseqs[i]), fscores[j], Len(fseqs[j]))
            \/ /\ ~NormGreater(fscores[j], Len(fseqs[j]), fscores[i], Len(fseqs[i]))
               /\ i <= j

\* line 148: np.argmax(scores), the first maximum
BestActive(scs) ==
    CHOOSE i \in DOMAIN scs : \A j \in DOMAIN scs : scs[i] > scs[j] \/ (scs[i] = scs[j] /\ i <= j)

\* the best active hypothesis is returned whether or not any has finished
BestSeqIgnoresFinished(seqs, scs, fseqs, fscores) == seqs[BestActive(scs)]

\* lines 138-149
BestSeq(seqs, scs, fseqs, fscores) ==
    IF Len(fscores) > 0 THEN fseqs[BestFinished(fseqs, fscores)]
    ELSE seqs[BestActive(scs)]

\* lines 152-160: skip START, stop at STOP, map the ids to characters
RECURSIVE DecodeChars(_)
DecodeChars(seq) ==
    IF seq = <<>> THEN <<>>
    ELSE IF Head(seq) = START_ID THEN DecodeChars(Tail(seq))
    ELSE IF Head(seq) = STOP_TOKEN THEN <<>>
    ELSE <<InvVocab(Head(seq))>> \o DecodeChars(Tail(seq))

\* ------------------------------------------------------------------ state
VARIABLES
    order, default_weights, models,      \* fields of the MultiMarkovModel
    log,                                 \* history: per name, the data lists passed to train
    pc,                                  \* position of the caller / of generate
    fp_state, fp_weights, fp_ret,        \* a direct _get_fused_probabilities call
    weights, min_length, max_length,     \* generate: arguments of the current frame
    current_state, generated_chars,      \* generate: locals
    population, probs, next_char,        \* generate: locals
    result, raised,                      \* generate: returned string / exception
    restarts,                            \* history: recursive restarts of this call (saturating)
    file, loaded                         \* the exported JSON document and the model loaded from it

VARIABLES
    oracle,                              \* the scoring oracle with the encoder input, fixed
    bpc,                                 \* position in decode_sequence_beam_batched
    beam_width,                          \* argument
    step,                                \* iterations of the loop completed
    sequences, scores,                   \* the active beam
    finished_seqs, finished_scores,      \* the finished collection
    top_k_indices,                       \* local of the last iteration
    best_seq, decoded,                   \* the selected sequence and the returned string
    lineage, finished_lineage,           \* history: per hypothesis, its seed and whether a STOP killed an ancestor
    oracle_calls,                        \* history: model_step invocations of this call
    trace,                               \* history: the beam after each iteration of this call
    second_run, prev_run                 \* history: a call was completed before, and its record

beamArgs == <<oracle, beam_width>>
beamState == <<step, sequences, scores, finished_seqs, finished_scores, top_k_indices>>
beamOut == <<best_seq, decoded>>
beamHist == <<lineage, finished_lineage, oracle_calls, trace, second_run, prev_run>>
beamVars == <<bpc, beamArgs, beamState, beamOut, beamHist>>

modelVars == <<order, default_weights, models, log>>
fpVars == <<fp_state, fp_weights, fp_ret>>
genArgs == <<weights, min_length, max_length>>
genLocals == <<current_state, generated_chars, population, probs, next_char>>
genOut == <<result, raised, restarts>>
genVars == <<genArgs, genLocals, genOut>>
ioVars == <<file, loaded>>

vars == <<modelVars, pc, fpVars, genVars, ioVars, beamVars>>

NoFile == [order |-> 0, default_weights |-> <<>>, models |-> <<>>]
NoModel == [raised |-> "", order |-> 0, default_weights |-> EmptyWeights, models |-> EmptyModels]
NoRet == [raised |-> "", population |-> <<>>, probabilities |-> <<>>]

DefaultWeightChoices == {EmptyWeights, [n \in Names |-> 1]}

\* weights handed to generate; EmptyWeights stands for None and for {} (both falsy)
GenWeights ==
    {EmptyWeights, [n \in {"a"} |-> 1],
     [n \in Names |-> IF n = "a" THEN 1 ELSE 0], [n \in Names |-> 1]}

\* min_length and max_length handed to generate
MinLengths == {0, 2}
MaxLengths == {0, 1, MaxLength}

NoRun == [beam_width |-> 0, trace |-> <<>>, decoded |-> <<>>]

\* no call of decode_sequence_beam_batched is in progress
BeamIdle ==
    /\ bpc = "idle"
    /\ beam_width = 0
    /\ step = 0
    /\ sequences = <<>>
    /\ scores = <<>>
    /\ finished_seqs = <<>>
    /\ finished_scores = <<>>
    /\ top_k_indices = <<>>
    /\ best_seq = <<>>
    /\ decoded = <<>>
    /\ lineage = <<>>
    /\ finished_lineage = <<>>
    /\ oracle_calls = 0
    /\ trace = <<>>
    /\ second_run = FALSE
    /\ prev_run = NoRun

MarkovIdle ==
    /\ models = EmptyModels
    /\ log = [n \in Names |-> <<>>]
    /\ pc = "idle"
    /\ fp_state = <<>>
    /\ fp_weights = EmptyWeights
    /\ fp_ret = NoRet
    /\ weights = EmptyWeights
    /\ min_length = 0
    /\ max_length = 0
    /\ current_state = <<>>
    /\ generated_chars = <<>>
    /\ population = <<>>
    /\ probs = <<>>
    /\ next_char = ""
    /\ result = <<>>
    /\ raised = ""
    /\ restarts = 0
    /\ file = NoFile
    /\ loaded = NoModel

Init ==
    /\ order \in Orders
    /\ default_weights \in DefaultWeightChoices
    /\ oracle = [t \in OracleKeys |-> RowStop]
    /\ BeamIdle
    /\ MarkovIdle

ItemsTrained == Len(Concat(log["a"])) + Len(Concat(log["b"]))

\* lines 17-29; log keeps the non-empty data lists
Train(model_name, data_list) ==
    /\ pc = "idle"
    /\ ItemsTrained + Len(data_list) <= MaxItems
    /\ models' = TrainOp(models, order, model_name, data_list)
    /\ log' = IF data_list = <<>> THEN log
              ELSE [log EXCEPT ![model_name] = Append(@, data_list)]
    /\ UNCHANGED <<order, default_weights, pc, fpVars, genVars, ioVars, beamVars>>

\* contexts a caller looks up: every stored one, the initial one, an unseen one
ContextsToTry ==
    UNION {DOMAIN models[n] : n \in DOMAIN models}
      \cup {AllStart(order), [i \in 1..order |-> END_TOKEN]}

FusedCall(state, w) ==
    /\ pc = "idle"
    /\ fp_state' = state
    /\ fp_weights' = w
    /\ fp_ret' = GetFusedProbabilities(models, state, w)
    /\ models' = ModelsAfterFused(models, state, w)
    /\ pc' = "fused"
    /\ UNCHANGED <<order, default_weights, log, genVars, ioVars, beamVars>>

\* --------------------------------------------------------------- generate
\* lines 65-71: resolve the weights, raise without any, set up the frame
GenerateCall(w, minl, maxl) ==
    /\ pc = "idle"
    /\ LET resolved == IF w # EmptyWeights THEN w ELSE default_weights
       IN IF resolved = EmptyWeights
          THEN /\ pc' = "raised"
               /\ raised' = "ValueError"
               /\ UNCHANGED <<genArgs, genLocals, result, restarts>>
          ELSE /\ pc' = "loop"
               /\ weights' = resolved
               /\ min_length' = minl
               /\ max_length' = maxl
               /\ current_state' = AllStart(order)
               /\ generated_chars' = <<>>
               /\ UNCHANGED <<population, probs, next_char, genOut>>
    /\ UNCHANGED <<modelVars, fpVars, ioVars, beamVars>>

\* line 90: return "".join(generated_chars)
Finish ==
    /\ pc' = "done"
    /\ result' = generated_chars

\* line 85: return self.generate(weights, min_length, max_length), a new frame
Restart ==
    /\ pc' = "loop"
    /\ current_state' = AllStart(order)
    /\ generated_chars' = <<>>
    /\ population' = <<>>
    /\ probs' = <<>>
    /\ next_char' = ""
    /\ restarts' = IF restarts < MaxRestarts THEN restarts + 1 ELSE restarts
    /\ UNCHANGED <<genArgs, result, raised>>

\* a dead end below min_length restarts instead of returning
LoopStepRestartsOnDeadEnd ==
    /\ pc = "loop"
    /\ IF Len(generated_chars) >= max_length
       THEN Finish /\ UNCHANGED <<genArgs, genLocals, raised, restarts>>
       ELSE LET r == GetFusedProbabilities(models, current_state, weights)
            IN IF r.raised # ""
               THEN /\ pc' = "raised"
                    /\ raised' = r.raised
                    /\ UNCHANGED <<genArgs, genLocals, result, restarts>>
               ELSE IF r.population = <<>>
               THEN IF Len(generated_chars) >= min_length
                    THEN /\ Finish
                         /\ population' = r.population
                         /\ probs' = r.probabilities
                         /\ UNCHANGED <<genArgs, current_state, generated_chars,
                                        next_char, raised, restarts>>
                    ELSE Restart
               ELSE \E i \in 1..Len(r.population) :
                    /\ r.probabilities[i][1] > 0
                    /\ next_char' = r.population[i]
                    /\ population' = r.population
                    /\ probs' = r.probabilities
                    /\ pc' = "sampled"
                    /\ UNCHANGED <<genArgs, current_state, generated_chars, genOut>>
    /\ UNCHANGED <<modelVars, fpVars, ioVars, beamVars>>

\* lines 73-79: loop test, fused distribution, dead-end break, one sample
LoopStep ==
    /\ pc = "loop"
    /\ IF Len(generated_chars) >= max_length
       THEN Finish /\ UNCHANGED <<genArgs, genLocals, raised, restarts>>
       ELSE LET r == GetFusedProbabilities(models, current_state, weights)
            IN IF r.raised # ""
               THEN /\ pc' = "raised"
                    /\ raised' = r.raised
                    /\ UNCHANGED <<genArgs, genLocals, result, restarts>>
               ELSE IF r.population = <<>>
               THEN /\ Finish
                    /\ population' = r.population
                    /\ probs' = r.probabilities
                    /\ UNCHANGED <<genArgs, current_state, generated_chars,
                                   next_char, raised, restarts>>
               ELSE \E i \in 1..Len(r.population) :
                    /\ r.probabilities[i][1] > 0
                    /\ next_char' = r.population[i]
                    /\ population' = r.population
                    /\ probs' = r.probabilities
                    /\ pc' = "sampled"
                    /\ UNCHANGED <<genArgs, current_state, generated_chars, genOut>>
    /\ models' = IF Len(generated_chars) >= max_length THEN models
                 ELSE ModelsAfterFused(models, current_state, weights)
    /\ UNCHANGED <<order, default_weights, log, fpVars, ioVars, beamVars>>

\* line 88: current_state[1:], which is () for the empty tuple
DropFirst(state) == IF state = <<>> THEN <<>> ELSE Tail(state)

\* lines 87-88: append the symbol and slide the context window
AppendAndSlide ==
    /\ generated_chars' = Append(generated_chars, next_char)
    /\ current_state' = DropFirst(current_state) \o <<next_char>>
    /\ pc' = "loop"
    /\ UNCHANGED <<genArgs, population, probs, next_char, genOut>>

\* END below min_length returns the partial output instead of restarting
HandleSampleBreaks ==
    /\ pc = "sampled"
    /\ IF next_char = END_TOKEN
       THEN Finish /\ UNCHANGED <<genArgs, genLocals, raised, restarts>>
       ELSE AppendAndSlide
    /\ UNCHANGED <<modelVars, fpVars, ioVars, beamVars>>

\* lines 81-88: END returns or restarts, any other symbol is appended
HandleSample ==
    /\ pc = "sampled"
    /\ IF next_char = END_TOKEN
       THEN IF Len(generated_chars) >= min_length
            THEN Finish /\ UNCHANGED <<genArgs, genLocals, raised, restarts>>
            ELSE Restart
       ELSE AppendAndSlide
    /\ UNCHANGED <<modelVars, fpVars, ioVars, beamVars>>

\* lines 92-107: export_to_json(filepath)
Export ==
    /\ pc = "idle"
    /\ file' = ExportToJson(order, default_weights, models)
    /\ pc' = "exported"
    /\ UNCHANGED <<modelVars, fpVars, genVars, loaded, beamVars>>

\* lines 109-121: load_from_json(filepath) of the file just written
Load ==
    /\ pc = "exported"
    /\ loaded' = LoadFromJson(file)
    /\ pc' = "loaded"
    /\ UNCHANGED <<modelVars, fpVars, genVars, file, beamVars>>

\* the caller takes the outcome of the last call and is ready for the next
Return ==
    /\ pc \in {"fused", "done", "raised", "exported", "loaded"}
    /\ pc' = "idle"
    /\ fp_state' = <<>>
    /\ fp_weights' = EmptyWeights
    /\ fp_ret' = NoRet
    /\ weights' = EmptyWeights
    /\ min_length' = 0
    /\ max_length' = 0
    /\ current_state' = <<>>
    /\ generated_chars' = <<>>
    /\ population' = <<>>
    /\ probs' = <<>>
    /\ next_char' = ""
    /\ result' = <<>>
    /\ raised' = ""
    /\ restarts' = 0
    /\ file' = NoFile
    /\ loaded' = NoModel
    /\ UNCHANGED <<modelVars, beamVars>>

Next ==
    \/ \E n \in Names, d \in DataLists : Train(n, d)
    \/ \E s \in ContextsToTry, w \in WeightMaps : FusedCall(s, w)
    \/ \E w \in GenWeights, minl \in MinLengths, maxl \in MaxLengths :
          GenerateCall(w, minl, maxl)
    \/ LoopStep
    \/ HandleSample
    \/ Export
    \/ Load
    \/ Return

Spec == Init /\ [][Next]_vars

\* the constructor takes any integer as order: the same program, with the
\* order-0 (unigram) model among the models constructed
AnyOrders == 0..DefaultOrder

InitAnyOrder ==
    /\ order \in AnyOrders
    /\ default_weights \in DefaultWeightChoices
    /\ oracle = [t \in OracleKeys |-> RowStop]
    /\ BeamIdle
    /\ MarkovIdle

SpecAnyOrder == InitAnyOrder /\ [][Next]_vars

\* ------------------------------------------- decode_sequence_beam_batched
BeamWidths == 1..MaxBeamWidth

\* the finished list of the previous call is kept
InitialFinishedKept(prev) == prev

\* lines 61-62: finished_seqs = [], finished_scores = []
InitialFinished(prev) == <<>>

\* line 55: [0.0] + [-1e9] * (beam_width - 1)
InitialScores(bw) == [b \in 1..bw |-> IF b = 1 THEN 0 ELSE KILLED_SCORE]

Snapshot(seqs, scs, fseqs, fscores) ==
    [sequences |-> seqs, scores |-> scs, finished_seqs |-> fseqs, finished_scores |-> fscores]

\* lines 43-62: the call and the initialisation of the beam
DecodeCall(bw) ==
    /\ \/ bpc = "idle" /\ UNCHANGED <<second_run, prev_run>>
       \/ /\ bpc = "done" /\ ~second_run
          /\ second_run' = TRUE
          /\ prev_run' = [beam_width |-> beam_width, trace |-> trace, decoded |-> decoded]
    /\ beam_width' = bw
    /\ sequences' = [b \in 1..bw |-> <<START_ID>>]
    /\ scores' = InitialScores(bw)
    /\ finished_seqs' = InitialFinished(finished_seqs)
    /\ finished_scores' = InitialFinished(finished_scores)
    /\ finished_lineage' = InitialFinished(finished_lineage)
    /\ lineage' = [b \in 1..bw |-> [seed |-> b, killed |-> FALSE]]
    /\ step' = 0
    /\ top_k_indices' = <<>>
    /\ best_seq' = <<>>
    /\ decoded' = <<>>
    /\ oracle_calls' = 0
    /\ trace' = <<>>
    /\ bpc' = IF MAX_LEN - 1 > 0 THEN "loop" ELSE "select"
    /\ UNCHANGED <<oracle, modelVars, pc, fpVars, genVars, ioVars>>

\* lines 65-133: one iteration of the loop, with the exit test at its end
BeamStep ==
    /\ bpc = "loop"
    /\ \E fs \in {FlatScores(oracle, sequences, scores)} :
       \E top \in {TopK(fs, beam_width)} :
       \E stops \in {StopPicks(top)} :
          /\ top_k_indices' = top
          /\ sequences' = [k \in 1..beam_width |-> NextSequence(sequences, top[k])]
          /\ scores' = [k \in 1..beam_width |-> NextScore(fs, top[k])]
          /\ finished_seqs' = finished_seqs \o
                [j \in 1..Len(stops) |-> FinishedEntry(sequences[BeamIdx(stops[j]) + 1])]
          /\ finished_scores' = finished_scores \o [j \in 1..Len(stops) |-> fs[stops[j]]]
          /\ lineage' = [k \in 1..beam_width |->
                [seed |-> lineage[BeamIdx(top[k]) + 1].seed,
                 killed |-> lineage[BeamIdx(top[k]) + 1].killed \/ TokenIdx(top[k]) = STOP_TOKEN]]
          /\ finished_lineage' = finished_lineage \o
                [j \in 1..Len(stops) |-> lineage[BeamIdx(stops[j]) + 1]]
    /\ step' = step + 1
    /\ oracle_calls' = oracle_calls + 1
    /\ trace' = Append(trace, Snapshot(sequences', scores', finished_seqs', finished_scores'))
    /\ bpc' = IF AllDead(scores') \/ step + 1 >= MAX_LEN - 1 THEN "select" ELSE "loop"
    /\ UNCHANGED <<beamArgs, beamOut, second_run, prev_run>>
    /\ UNCHANGED <<modelVars, pc, fpVars, genVars, ioVars>>

\* lines 135-160: the selection of the result and its decoding
SelectBest ==
    /\ bpc = "select"
    /\ best_seq' = BestSeq(sequences, scores, finished_seqs, finished_scores)
    /\ decoded' = DecodeChars(best_seq')
    /\ bpc' = "done"
    /\ UNCHANGED <<beamArgs, beamState, beamHist>>
    /\ UNCHANGED <<modelVars, pc, fpVars, genVars, ioVars>>

InitBeam ==
    /\ order = DefaultOrder
    /\ default_weights = EmptyWeights
    /\ MarkovIdle
    /\ oracle \in Oracles
    /\ BeamIdle

NextBeam ==
    \/ \E bw \in BeamWidths : DecodeCall(bw)
    \/ BeamStep
    \/ SelectBest

SpecBeam == InitBeam /\ [][NextBeam]_vars

\* one call of the decoder, from its entry to its return
NextBeamCall ==
    \/ \E bw \in BeamWidths : bpc = "idle" /\ DecodeCall(bw)
    \/ BeamStep
    \/ SelectBest

\* a call that has started runs on: the loop body and the code after the loop
\* are straight-line code of one thread; whether the call is made at all is up
\* to the caller
SpecBeamFair ==
    InitBeam /\ [][NextBeamCall]_vars /\ WF_vars(BeamStep) /\ WF_vars(SelectBest)

\* ================================================================ claims
Range(s) == {s[i] : i \in DOMAIN s}
NoDuplicates(s) == \A i, j \in DOMAIN s : s[i] = s[j] => i = j
IsEmptyResult(r) == r.population = <<>> /\ r.probabilities = <<>>

\* the corpora the specification calls contributing: named with a weight > 0,
\* trained, and with at least one observation of the context
Contributing(ms, st, w) ==
    {c \in DOMAIN w :
        /\ w[c] > 0
        /\ c \in DOMAIN ms
        /\ st \in DOMAIN ms[c]
        /\ \E sym \in DOMAIN ms[c][st] : ms[c][st][sym] > 0}

RECURSIVE SumOver(_, _)
SumOver(S, f) ==
    IF S = {} THEN 0
    ELSE LET x == CHOOSE y \in S : TRUE IN f[x] + SumOver(S \ {x}, f)

RECURSIVE ProdOver(_, _)
ProdOver(S, f) ==
    IF S = {} THEN 1
    ELSE LET x == CHOOSE y \in S : TRUE IN f[x] * ProdOver(S \ {x}, f)

CountOf(ms, c, st, sym) ==
    IF st \in DOMAIN ms[c] /\ sym \in DOMAIN ms[c][st] THEN ms[c][st][sym] ELSE 0
TotalOf(ms, c, st) ==
    LET syms == IF st \in DOMAIN ms[c] THEN DOMAIN ms[c][st] ELSE {}
    IN SumOver(syms, [sym \in syms |-> ms[c][st][sym]])

\* ---- C1
\* C1: a direct _get_fused_probabilities call returns either the empty pair
\* or one probability per population symbol, the probabilities summing to 1.
C1_FusedSumsToOne ==
    pc = "fused" =>
        /\ fp_ret.raised = ""
        /\ \/ IsEmptyResult(fp_ret)
           \/ /\ fp_ret.population # <<>>
              /\ Len(fp_ret.probabilities) = Len(fp_ret.population)
              /\ NoDuplicates(fp_ret.population)
              /\ RatSumSeq(fp_ret.probabilities) = RatOne

\* two corpora of different weight contribute, on a context with two successors
C1_Witness ==
    /\ pc = "fused"
    /\ Len(fp_ret.population) >= 2
    /\ DOMAIN fp_weights = Names
    /\ fp_weights["a"] > 0
    /\ fp_weights["b"] > fp_weights["a"]
    /\ Contributing(models, fp_state, fp_weights) = Names

\* ---- C2
\* C2: after any train calls, each trained corpus's table equals the table a
\* single train on a fresh model builds from the concatenation of all data
\* lists given for that name, and a train call leaves the table of every
\* other name as it was.
C2_TrainAccumulates ==
    /\ [](/\ \A n \in Names : Len(log[n]) > 0 => n \in DOMAIN models
          /\ \A n \in DOMAIN models :
                models[n] = TrainOp(EmptyModels, order, n, Concat(log[n]))[n])
    /\ [][\A n \in DOMAIN models :
            log'[n] = log[n] => n \in DOMAIN models' /\ models'[n] = models[n]]_vars

\* the same name trained twice with non-empty lists; a count reached 2
C2_Witness ==
    \E n \in Names :
        /\ Len(log[n]) = 2
        /\ log[n][1] # log[n][2]
        /\ \E sym \in DOMAIN models[n][AllStart(order)] : models[n][AllStart(order)][sym] = 2

\* ---- C3
\* C3: the model loaded from the export of a trained model has the same
\* order, default_weights, corpus names, contexts and counts, and its fused
\* probabilities equal the original's for every stored context and weights.
C3_RoundTrip ==
    pc = "loaded" =>
        /\ loaded.raised = ""
        /\ loaded.order = order
        /\ loaded.default_weights = default_weights
        /\ DOMAIN loaded.models = DOMAIN models
        /\ \A n \in DOMAIN models :
              /\ DOMAIN loaded.models[n] = DOMAIN models[n]
              /\ \A st \in DOMAIN models[n] : loaded.models[n][st] = models[n][st]
        /\ \A st \in UNION {DOMAIN models[n] : n \in DOMAIN models}, w \in WeightMaps :
              GetFusedProbabilities(loaded.models, st, w)
                = GetFusedProbabilities(models, st, w)

\* two corpora, default weights, and a context holding a character JSON escapes
C3_Witness ==
    /\ pc = "loaded"
    /\ DOMAIN models = Names
    /\ default_weights # EmptyWeights
    /\ \E n \in Names : \E st \in DOMAIN loaded.models[n] : st[order] = "\""

\* ---- C4
WeightsA == [n \in {"a"} |-> 1]
WeightsA1B0 == [n \in Names |-> IF n = "a" THEN 1 ELSE 0]

IsEmpiricalOf(r, counter) ==
    /\ Range(r.population) = DOMAIN counter
    /\ \A i \in DOMAIN r.population :
          r.probabilities[i][1] * CounterTotal(counter)
            = counter[r.population[i]] * r.probabilities[i][2]

\* C4: with corpora a and b trained, the result for weights {a: 1, b: 0} is
\* the result for {a: 1} and is corpus a's count/total distribution, both in
\* a direct call and at every step of generate.
C4_ZeroWeightIgnored ==
    /\ (pc = "fused" /\ fp_weights = WeightsA1B0 /\ DOMAIN models = Names) =>
          /\ fp_ret = GetFusedProbabilities(models, fp_state, WeightsA)
          /\ IsEmpiricalOf(fp_ret, TableGet(models["a"], fp_state))
    /\ (pc = "sampled" /\ weights = WeightsA1B0 /\ DOMAIN models = Names) =>
          /\ population = GetFusedProbabilities(models, current_state, WeightsA).population
          /\ probs = GetFusedProbabilities(models, current_state, WeightsA).probabilities
          /\ IsEmpiricalOf([population |-> population, probabilities |-> probs],
                           TableGet(models["a"], current_state))

\* both corpora saw the context, b with a successor a never saw
C4_Witness ==
    /\ pc = "fused"
    /\ fp_weights = WeightsA1B0
    /\ DOMAIN models = Names
    /\ fp_ret.population # <<>>
    /\ DOMAIN TableGet(models["b"], fp_state) \ DOMAIN TableGet(models["a"], fp_state) # {}

\* ---- C5
SS == <<START_TOKEN, START_TOKEN>>
One(sym) == [s \in {sym} |-> 1]
PikaTable ==
    [st \in {SS, <<START_TOKEN, "p">>, <<"p", "i">>, <<"i", "k">>, <<"k", "a">>} |->
        IF st = SS THEN One("p")
        ELSE IF st = <<START_TOKEN, "p">> THEN One("i")
        ELSE IF st = <<"p", "i">> THEN One("k")
        ELSE IF st = <<"i", "k">> THEN One("a")
        ELSE One(END_TOKEN)]

OnlyPika(n) ==
    /\ order = 2
    /\ log[n] = <<<<Pika>>>>
    /\ \A m \in Names \ {n} : log[m] = <<>>

Certain(sym) == [raised |-> "", population |-> <<sym>>, probabilities |-> <<RatOne>>]

\* C5: an order-2 model trained on the single item "pika" holds exactly the
\* five transitions, each with count 1, and its fused distribution gives
\* p for (START,START), k for (p,i) and END for (k,a) with probability 1.
C5_PikaTable ==
    \A n \in Names :
        OnlyPika(n) =>
            /\ n \in DOMAIN models
            /\ models[n] = PikaTable
            /\ (pc = "fused" /\ n \in DOMAIN fp_weights /\ fp_weights[n] > 0) =>
                  /\ fp_state = SS => fp_ret = Certain("p")
                  /\ fp_state = <<"p", "i">> => fp_ret = Certain("k")
                  /\ fp_state = <<"k", "a">> => fp_ret = Certain(END_TOKEN)

C5_Witness ==
    /\ OnlyPika("a")
    /\ pc = "fused"
    /\ fp_state = <<"k", "a">>
    /\ fp_ret.population = <<END_TOKEN>>

\* ---- C6
\* n/d = sum over the contributing c of (w_c / W) * (count_c(sym) / total_c),
\* compared over the common denominator W * product of the totals
IsWeightedSum(prob, ms, st, w, sym) ==
    LET C == Contributing(ms, st, w)
        totOf == [c \in C |-> TotalOf(ms, c, st)]
        W == SumOver(C, [c \in C |-> w[c]])
        term == [c \in C |->
                    w[c] * CountOf(ms, c, st, sym)
                         * ProdOver(C, [d \in C |-> IF d = c THEN 1 ELSE totOf[d]])]
    IN prob[1] * W * ProdOver(C, totOf) = SumOver(C, term) * prob[2]

\* C6: when some corpus contributes, the population is the set of symbols a
\* contributing corpus observed after the context, and each probability is
\* the sum over the contributing corpora of the weight, renormalized over the
\* contributing corpora only, times count / total of that corpus.
C6_FusedFormula ==
    (pc = "fused" /\ Contributing(models, fp_state, fp_weights) # {}) =>
        /\ Range(fp_ret.population)
             = UNION {DOMAIN models[c][fp_state] :
                        c \in Contributing(models, fp_state, fp_weights)}
        /\ Len(fp_ret.probabilities) = Len(fp_ret.population)
        /\ \A i \in DOMAIN fp_ret.population :
              IsWeightedSum(fp_ret.probabilities[i], models, fp_state, fp_weights,
                            fp_ret.population[i])

\* two contributing corpora of different weight, a symbol only one of them saw
C6_Witness ==
    /\ pc = "fused"
    /\ Contributing(models, fp_state, fp_weights) = Names
    /\ fp_weights["a"] # fp_weights["b"]
    /\ \E sym \in Range(fp_ret.population) :
          /\ CountOf(models, "a", fp_state, sym) = 0
          /\ CountOf(models, "b", fp_state, sym) > 0

\* ---- C7
\* C7: a direct call raises nothing, and returns the empty pair exactly when
\* no corpus contributes.
C7_EmptyIffNoContributor ==
    pc = "fused" =>
        /\ fp_ret.raised = ""
        /\ IsEmptyResult(fp_ret) <=> Contributing(models, fp_state, fp_weights) = {}

\* empty result with an untrained name, and a trained one lacking the context
C7_Witness ==
    /\ pc = "fused"
    /\ IsEmptyResult(fp_ret)
    /\ \E n \in DOMAIN fp_weights : n \notin DOMAIN models /\ fp_weights[n] > 0
    /\ \E n \in DOMAIN fp_weights : n \in DOMAIN models /\ fp_weights[n] > 0

\* the empty result with a negative weight on a corpus that saw the context
C7_WitnessNegative ==
    /\ pc = "fused"
    /\ IsEmptyResult(fp_ret)
    /\ \E n \in DOMAIN fp_weights :
          n \in DOMAIN models /\ fp_weights[n] < 0 /\ fp_state \in DOMAIN models[n]

\* ---- C8
\* C8: when END has been sampled, generate returns exactly the symbols
\* generated if there are at least min_length of them, and otherwise starts
\* again from the all-START context with empty output and the same
\* arguments; a string returned on END has at least min_length symbols.
C8_EndReturnsOrRestarts ==
    /\ [][(pc = "sampled" /\ next_char = END_TOKEN) =>
            IF Len(generated_chars) >= min_length
            THEN /\ pc' = "done"
                 /\ result' = generated_chars
                 /\ END_TOKEN \notin Range(result')
            ELSE /\ pc' = "loop"
                 /\ generated_chars' = <<>>
                 /\ current_state' = AllStart(order)
                 /\ <<weights, min_length, max_length>>' = <<weights, min_length, max_length>>
                 /\ raised' = ""]_vars
    /\ []((pc = "done" /\ next_char = END_TOKEN) => Len(result) >= min_length)

\* a call that restarted and then returned on END with min_length >= 1 reached
C8_Witness ==
    /\ pc = "done"
    /\ next_char = END_TOKEN
    /\ restarts >= 1
    /\ min_length >= 1
    /\ Len(result) >= min_length

\* ---- C9
\* C9: at a dead end generate returns the symbols generated so far, without
\* restarting and without raising, whatever min_length is.
C9_DeadEndReturns ==
    [][(/\ pc = "loop"
        /\ Len(generated_chars) < max_length
        /\ Contributing(models, current_state, weights) = {}) =>
            /\ pc' = "done"
            /\ result' = generated_chars
            /\ restarts' = restarts
            /\ raised' = ""]_vars

\* returned at a dead end of the all-START context, below min_length
C9_Witness ==
    /\ pc = "done"
    /\ population = <<>>
    /\ next_char = ""
    /\ max_length > 0
    /\ min_length > 0
    /\ result = <<>>
    /\ \E n \in DOMAIN weights : weights[n] > 0 /\ n \in DOMAIN models

\* ---- C10
Slide(ctx, sym) == Tail(ctx) \o <<sym>>

\* some sequence of draws of positive probability, from context ctx with n
\* symbols generated, ends the call
RECURSIVE ExitReachable(_, _)
ExitReachable(ctx, n) ==
    IF n >= max_length THEN TRUE
    ELSE LET r == GetFusedProbabilities(models, ctx, weights)
         IN IF r.population = <<>> THEN TRUE
            ELSE \E i \in DOMAIN r.population :
                    /\ r.probabilities[i][1] > 0
                    /\ IF r.population[i] = END_TOKEN THEN n >= min_length
                       ELSE ExitReachable(Slide(ctx, r.population[i]), n + 1)

\* a call in which every attempt can only sample END at once, below min_length
AlwaysEndsEarly ==
    /\ pc \in {"loop", "sampled", "done", "raised"}
    /\ weights # EmptyWeights
    /\ min_length >= 1
    /\ max_length >= 1
    /\ Range(GetFusedProbabilities(models, AllStart(order), weights).population) = {END_TOKEN}

\* C10: a call whose every attempt samples END below min_length never
\* returns and keeps restarting with empty output; and a call returns only
\* if some sequence of draws from the all-START context reaches a dead end,
\* END at length >= min_length, or max_length symbols.
C10_MayNotReturn ==
    /\ [](AlwaysEndsEarly => pc \in {"loop", "sampled"} /\ generated_chars = <<>>)
    /\ [][(AlwaysEndsEarly /\ pc = "sampled") => pc' = "loop" /\ restarts' >= restarts]_vars
    /\ []((pc = "done" /\ weights # EmptyWeights) => ExitReachable(AllStart(order), 0))

\* the corpus was trained on the empty item only; the call has restarted twice
C10_Witness ==
    /\ AlwaysEndsEarly
    /\ restarts >= 2
    /\ \E n \in Names : log[n] = <<<<<<>>>>>> /\ DOMAIN weights = {n}


\* the positions a call of _get_fused_probabilities or generate moves through
QueryPositions == {"fused", "loop", "sampled", "done", "raised"}

\* C11: generate and _get_fused_probabilities never modify the trained model:
\* order, default_weights, the corpus names, each corpus's contexts and every
\* count are the same after any step of a call as before it, also when the
\* context looked up is one a corpus has never seen.
C11_ModelUnchanged ==
    [][pc' \in QueryPositions =>
        /\ order' = order
        /\ default_weights' = default_weights
        /\ DOMAIN models' = DOMAIN models
        /\ \A n \in DOMAIN models :
            /\ DOMAIN models'[n] = DOMAIN models[n]
            /\ models'[n] = models[n]]_vars

\* a lookup has been made of a context that a trained, positively weighted
\* corpus does not hold
C11_Witness ==
    /\ pc = "fused"
    /\ \E n \in DOMAIN models :
        /\ n \in DOMAIN fp_weights /\ fp_weights[n] > 0
        /\ models[n] # EmptyTable
        /\ fp_state \notin DOMAIN models[n]

\* ------------------------------------- claims on decode_sequence_beam_batched

\* finished entry i is at least as good as entry j after length normalization,
\* and strictly better than every entry collected before it
PrecedesNormalized(i, j) ==
    /\ ~NormGreater(finished_scores[j], Len(finished_seqs[j]),
                    finished_scores[i], Len(finished_seqs[i]))
    /\ j < i => NormGreater(finished_scores[i], Len(finished_seqs[i]),
                            finished_scores[j], Len(finished_seqs[j]))

\* C12: at the end of decoding, if any sequence has finished, the result is
\* the finished sequence maximizing score / len ** 0.7 (the first collected
\* wins ties) and never a sequence of the active beam; if none has finished,
\* it is the active sequence with the highest cumulative score, which has
\* never emitted STOP.
C12_Selection ==
    bpc = "done" =>
        IF Len(finished_seqs) > 0
        THEN /\ \E i \in DOMAIN finished_seqs :
                  /\ best_seq = finished_seqs[i]
                  /\ \A j \in DOMAIN finished_seqs : PrecedesNormalized(i, j)
             /\ best_seq \notin Range(sequences)
        ELSE \E i \in DOMAIN sequences :
                  /\ best_seq = sequences[i]
                  /\ \A j \in DOMAIN scores : scores[i] >= scores[j]
                  /\ \A j \in 1..(i - 1) : scores[i] > scores[j]
                  /\ ~lineage[i].killed
                  /\ STOP_TOKEN \notin Range(best_seq)

\* several sequences have finished, the one returned is not the one with the
\* highest raw score, and an active hypothesis scores higher than it
C12_Witness ==
    /\ bpc = "done"
    /\ Len(finished_seqs) >= 2
    /\ \E i, j \in DOMAIN finished_seqs :
        /\ best_seq = finished_seqs[i]
        /\ finished_scores[j] > finished_scores[i]
        /\ \E b \in DOMAIN scores : scores[b] > finished_scores[i]

\* the loop ran out with nothing finished: the best active one is returned
C12_WitnessNoFinished ==
    /\ bpc = "done"
    /\ Len(finished_seqs) = 0
    /\ beam_width >= 2

\* the oracle puts all probability mass on STOP at every step
StopRows == {RowStopAll, RowStop}
AlwaysStops == \A t \in OracleKeys : oracle[t] \in StopRows

\* C13: for every beam_width >= 1, when the oracle puts all probability mass
\* on STOP at every step, the call returns the empty string: [START] is
\* collected at the first step, its length normalization divides by a
\* non-zero number, and it is the sequence selected.
C13_AllStopEmpty ==
    AlwaysStops =>
        /\ bpc \in {"loop", "select", "done"} /\ step >= 1 =>
              /\ finished_seqs[1] = <<START_ID>>
              /\ finished_scores[1] = 0
              /\ Pow07(Len(finished_seqs[1])) > 0
        /\ bpc = "done" =>
              /\ best_seq = <<START_ID>>
              /\ decoded = <<>>

\* such a call has returned, with a beam wider than the vocabulary
C13_Witness ==
    /\ \A t \in OracleKeys : oracle[t] = RowStopAll
    /\ bpc = "done"
    /\ beam_width > VocabSize
    /\ decoded = <<>>

\* the same with finite log-probabilities and one hypothesis
C13_WitnessNarrow ==
    /\ \A t \in OracleKeys : oracle[t] = RowStop
    /\ bpc = "done"
    /\ beam_width = 1
    /\ decoded = <<>>

\* the most probable token of a row, the lowest id among equals
ArgMaxRow(row) ==
    CHOOSE v \in Vocab : \A u \in Vocab :
        row[v + 1] > row[u + 1] \/ (row[v + 1] = row[u + 1] /\ v <= u)

\* greedy decoding: append the most probable token until it is STOP or n
\* tokens have been appended; calls counts the oracle calls made
RECURSIVE Greedy(_, _, _, _)
Greedy(orc, seq, n, calls) ==
    IF n = 0 THEN [seq |-> seq, calls |-> calls, stopped |-> FALSE]
    ELSE IF ArgMaxRow(LogProbs(orc, seq)) = STOP_TOKEN
         THEN [seq |-> seq, calls |-> calls + 1, stopped |-> TRUE]
         ELSE Greedy(orc, Append(seq, ArgMaxRow(LogProbs(orc, seq))), n - 1, calls + 1)

GreedyRun == Greedy(oracle, <<START_ID>>, MAX_LEN - 1, 0)

\* C14: with beam_width = 1 the decoder is greedy decoding: it returns the
\* string of the sequence built by appending the most probable token (the
\* lowest id on ties) until STOP is the most probable token or MAX_LEN - 1
\* tokens have been appended, and makes no step after STOP was chosen.
C14_WidthOneIsGreedy ==
    beam_width = 1 /\ bpc = "done" =>
        /\ best_seq = GreedyRun.seq
        /\ decoded = DecodeChars(GreedyRun.seq)
        /\ oracle_calls = GreedyRun.calls
        /\ GreedyRun.stopped <=> Len(finished_seqs) > 0

\* a greedy run that emitted a token and then stopped on a tie that STOP wins
C14_Witness ==
    /\ beam_width = 1
    /\ bpc = "done"
    /\ Len(decoded) >= 1
    /\ Len(finished_seqs) = 1
    /\ LogProbs(oracle, best_seq) = RowTie
    /\ oracle_calls < MAX_LEN - 1

\* a greedy run that never chose STOP and used all MAX_LEN - 1 steps
C14_WitnessExhausted ==
    /\ beam_width = 1
    /\ bpc = "done"
    /\ Len(finished_seqs) = 0
    /\ Len(best_seq) = MAX_LEN

IsPrefix(s, t) == Len(s) <= Len(t) /\ \A i \in DOMAIN s : s[i] = t[i]

\* C15: decoding is deterministic for a fixed oracle: a second call with the
\* same input and beam_width passes through the same beam states (sequences,
\* scores, finished sequences and finished scores after every step) as the
\* first and returns the same string; nothing is carried over from the first
\* call.
C15_Deterministic ==
    second_run /\ beam_width = prev_run.beam_width =>
        /\ IsPrefix(trace, prev_run.trace)
        /\ bpc \in {"select", "done"} => trace = prev_run.trace
        /\ bpc = "done" => decoded = prev_run.decoded

\* a second call with the same beam_width has returned, after several steps
\* in which sequences finished
C15_Witness ==
    /\ second_run
    /\ bpc = "done"
    /\ beam_width = prev_run.beam_width
    /\ beam_width >= 2
    /\ Len(trace) >= 2
    /\ Len(finished_seqs) >= 2
    /\ Len(decoded) >= 1

\* the lineage of the sequence returned
BestLineage ==
    IF Len(finished_scores) > 0
    THEN finished_lineage[BestFinished(finished_seqs, finished_scores)]
    ELSE lineage[BestActive(scores)]

\* C16: a killed placeholder (score -1e9, made when a hypothesis chose STOP)
\* is never the parent of a pair selected by a later top-k step, so no
\* finished sequence and no returned sequence descends from a placeholder.
C16_KilledNeverSelected ==
    /\ \A k \in DOMAIN lineage :
          lineage[k].killed => TokenIdx(top_k_indices[k]) = STOP_TOKEN
    /\ \A j \in DOMAIN finished_lineage : ~finished_lineage[j].killed
    /\ bpc = "done" => ~BestLineage.killed

\* C17: the beam starts as beam_width hypotheses [START], the first with
\* score 0 and the others with -1e9, and the first step behaves as one true
\* beam: every pair selected in step 1 has hypothesis 0 as its parent, the beam
\* after step 1 holds beam_width distinct first tokens, and nothing is
\* collected as finished from a hypothesis seeded at -1e9.
C17_SingleTrueBeam ==
    /\ bpc \in {"loop", "select"} /\ step = 0 =>
          /\ Len(sequences) = beam_width /\ Len(scores) = beam_width
          /\ \A b \in 1..beam_width :
                /\ sequences[b] = <<START_ID>>
                /\ scores[b] = IF b = 1 THEN 0 ELSE KILLED_SCORE
    /\ step = 1 =>
          /\ \A k \in DOMAIN top_k_indices : BeamIdx(top_k_indices[k]) = 0
          /\ \A k, l \in DOMAIN top_k_indices :
                k # l => TokenIdx(top_k_indices[k]) # TokenIdx(top_k_indices[l])
    /\ \A j \in DOMAIN finished_lineage : finished_lineage[j].seed = 1

\* the candidate score of flattened index f in the beam before the step
CandidateScore(f) ==
    Float32Add(scores[(f \div VocabSize) + 1],
               LogProbs(oracle, sequences[(f \div VocabSize) + 1])[(f % VocabSize) + 1])

\* C18: at every step the selected pairs are the beam_width pairs with the
\* highest candidate score (parent score + token log-probability) among all
\* beam_width * vocab_size pairs: they are distinct, no unselected pair scores
\* strictly higher than a selected one, among equal scores the lower flattened
\* index is selected first, and parent and token of a selected pair are its
\* index div vocab_size and mod vocab_size.
C18_TopK ==
    [][step' = step + 1 =>
        LET top == top_k_indices'
            all == 0..(beam_width * VocabSize - 1)
            sel == {top[k] : k \in DOMAIN top}
        IN /\ Len(top) = beam_width
           /\ sel \subseteq all
           /\ Cardinality(sel) = beam_width
           /\ \A f \in sel, g \in all \ sel :
                 \/ CandidateScore(f) > CandidateScore(g)
                 \/ CandidateScore(f) = CandidateScore(g) /\ f < g
           /\ \A k, l \in DOMAIN top :
                 k < l =>
                    \/ CandidateScore(top[k]) > CandidateScore(top[l])
                    \/ CandidateScore(top[k]) = CandidateScore(top[l]) /\ top[k] < top[l]
           /\ \A k \in DOMAIN top :
                 LET parent == sequences[(top[k] \div VocabSize) + 1]
                     token == top[k] % VocabSize
                 IN IF token = STOP_TOKEN
                    THEN sequences'[k] = Append(parent, PAD_TOKEN)
                    ELSE /\ sequences'[k] = Append(parent, token)
                         /\ scores'[k] = CandidateScore(top[k])]_vars

\* a step has selected pairs of equal candidate score from different live
\* parent hypotheses
C18_Witness ==
    /\ step >= 2
    /\ beam_width >= 2
    /\ \E k, l \in DOMAIN top_k_indices :
        /\ k < l
        /\ BeamIdx(top_k_indices[k]) # BeamIdx(top_k_indices[l])
        /\ scores[k] = scores[l]
        /\ scores[k] > DEAD_THRESHOLD

\* the pairs of a selection whose token is STOP, in the order of selection
StopsOf(top) == SelectSeq(top, LAMBDA f : f % VocabSize = STOP_TOKEN)

\* C19: when STOP is the token of a selected pair, the parent's sequence is
\* added to the finished collection unchanged, with the candidate score; every
\* other selected pair yields the parent sequence with the token appended and
\* the candidate score. No sequence of the active beam or of the finished
\* collection contains STOP, and a finished entry is never changed or removed
\* by a later step of the call.
C19_FinishedFixed ==
    /\ [](\A i \in DOMAIN sequences : STOP_TOKEN \notin Range(sequences[i]))
    /\ [](\A j \in DOMAIN finished_seqs : STOP_TOKEN \notin Range(finished_seqs[j]))
    /\ [][step' = step + 1 =>
            LET top == top_k_indices'
                stops == StopsOf(top)
                old == Len(finished_seqs)
            IN /\ Len(finished_seqs') = old + Len(stops)
               /\ Len(finished_scores') = old + Len(stops)
               /\ \A j \in DOMAIN stops :
                     /\ finished_seqs'[old + j] = sequences[(stops[j] \div VocabSize) + 1]
                     /\ finished_scores'[old + j] = CandidateScore(stops[j])
               /\ \A k \in DOMAIN top :
                     top[k] % VocabSize # STOP_TOKEN =>
                        /\ sequences'[k] =
                              Append(sequences[(top[k] \div VocabSize) + 1], top[k] % VocabSize)
                        /\ scores'[k] = CandidateScore(top[k])]_vars
    /\ [][bpc # "done" =>
            /\ IsPrefix(finished_seqs, finished_seqs')
            /\ IsPrefix(finished_scores, finished_scores')]_vars

\* sequences were collected in two different steps and the call has returned
C19_Witness ==
    /\ bpc = "done"
    /\ \E i, j \in DOMAIN finished_seqs : Len(finished_seqs[i]) < Len(finished_seqs[j])
    /\ \E k \in DOMAIN sequences : scores[k] > DEAD_THRESHOLD

\* some hypothesis of the active beam has a score of at least -1e8
SomeAlive(scs) == \E k \in DOMAIN scs : scs[k] >= DEAD_THRESHOLD

\* C20: the loop stops at the end of the first step after which the maximum
\* active score is below -1e8 and calls the oracle no more after that; while
\* some active hypothesis has a score >= -1e8 it continues, up to MAX_LEN - 1
\* steps in total. Once every hypothesis of the beam has chosen STOP in the
\* same step, no further step is taken.
C20_EarlyExit ==
    /\ [](oracle_calls = step /\ step <= MAX_LEN - 1)
    /\ [](bpc = "loop" /\ step >= 1 => SomeAlive(scores))
    /\ [](step >= 1 /\ (\A k \in DOMAIN top_k_indices :
                            TokenIdx(top_k_indices[k]) = STOP_TOKEN) => bpc # "loop")
    /\ [][step' = step + 1 =>
            /\ bpc = "loop"
            /\ IF SomeAlive(scores') /\ step' < MAX_LEN - 1
               THEN bpc' = "loop" ELSE bpc' = "select"]_vars
    /\ [][bpc = "select" => oracle_calls' = oracle_calls /\ step' = step /\ bpc' = "done"]_vars

\* the loop was left early, after a step in which the last live hypotheses
\* of a beam of several were killed
C20_Witness ==
    /\ bpc = "select"
    /\ beam_width >= 2
    /\ step >= 2
    /\ step < MAX_LEN - 1
    /\ ~SomeAlive(scores)

\* the loop ran all MAX_LEN - 1 steps with a live hypothesis left
C20_WitnessExhausted ==
    /\ bpc = "select"
    /\ step = MAX_LEN - 1
    /\ SomeAlive(scores)
    /\ Len(finished_seqs) >= 1

\* C21: the active beam stays rectangular and in lockstep: after the i-th
\* step it holds exactly beam_width hypotheses, live or killed, each of
\* exactly i + 1 tokens and each beginning with START; each step extends every
\* hypothesis by exactly one token and calls the oracle exactly once; no
\* hypothesis exceeds MAX_LEN tokens, and a call that has started returns.
C21_Rectangular ==
    /\ [](bpc # "idle" =>
            /\ Len(sequences) = beam_width
            /\ Len(scores) = beam_width
            /\ step <= MAX_LEN - 1
            /\ \A k \in DOMAIN sequences :
                  /\ Len(sequences[k]) = step + 1
                  /\ Len(sequences[k]) <= MAX_LEN
                  /\ sequences[k][1] = START_ID)
    /\ [][step' = step + 1 =>
            /\ oracle_calls' = oracle_calls + 1
            /\ \A k \in DOMAIN sequences' :
                  \E b \in DOMAIN sequences, t \in Vocab :
                     sequences'[k] = Append(sequences[b], t)]_vars
    /\ (bpc = "loop" ~> bpc = "done")

\* a wide beam after two steps, holding live hypotheses, a placeholder made
\* in the first step and one made in the second
C21_Witness ==
    /\ bpc = "loop"
    /\ step = 2
    /\ beam_width >= 3
    /\ \E k \in DOMAIN scores : scores[k] > DEAD_THRESHOLD
    /\ \E k \in DOMAIN lineage : lineage[k].killed /\ TokenIdx(top_k_indices[k]) = STOP_TOKEN
    /\ Len(finished_seqs) >= 2
    /\ \E i, j \in DOMAIN finished_seqs : Len(finished_seqs[i]) # Len(finished_seqs[j])

\* ---- C22
\* the last n symbols of s
LastN(s, n) == SubSeq(s, Len(s) - n + 1, Len(s))

\* C22: throughout generate, for every model order, the current context is a
\* tuple of exactly order symbols: it starts as order START markers and after
\* each appended symbol it is the previous context with its oldest symbol
\* dropped and the new one appended, so it equals the last order symbols of
\* the START padding followed by the output so far, and has the shape of the
\* contexts stored by train.
C22_ContextWindow ==
    /\ [](pc \in {"loop", "sampled", "done"} =>
            /\ Len(current_state) = order
            /\ current_state = LastN(AllStart(order) \o generated_chars, order))
    /\ [](\A n \in DOMAIN models : \A state \in DOMAIN models[n] : Len(state) = order)
    /\ [][pc = "idle" /\ pc' = "loop" => current_state' = AllStart(order)]_vars
    /\ [][pc = "sampled" /\ pc' = "loop" /\ generated_chars' # <<>> =>
            /\ generated_chars' = Append(generated_chars, next_char)
            /\ current_state' = LastN(current_state \o <<next_char>>, order)]_vars

====
